---- MODULE Spec2Model ----
(***************************************************************************)
(* ATP player dashboard: the shared D3 tooltip (utils/d3/tooltip.ts), the  *)
(* PlayerSurfaceProfile chart effect, the CompetitivenessBeeswarm chart    *)
(* effect and the beeswarm layout it calls.                                *)
(*                                                                         *)
(* Each component is a state machine of its own (SpecTooltip, SpecProfile, *)
(* SpecBeeswarm, SpecLayout); a component's actions leave the variables of *)
(* the other components unchanged.  A React prop or store change is one    *)
(* action: the new input, the render it causes and the effect that React   *)
(* runs after that render.                                                 *)
(***************************************************************************)
EXTENDS Integers, Sequences, FiniteSets, TLC

\* ------------------------------------------------------------------------
\* Bounds of the model
\* ------------------------------------------------------------------------
MaxOverlays == 2
MaxMatches == 2
MaxPoints == 3
MaxValue == 3

\* ------------------------------------------------------------------------
\* Value domains the inputs are drawn from
\* ------------------------------------------------------------------------
Null == "null"
Undefined == <<>>
Some(v) == <<v>>

PinnableIds == {"p1", "p2"}
\* <<winnerId, loserId>> of a match; p3 is never pinned
PlayerPairs == {<<"p1", "p2">>, <<"p2", "p1">>, <<"p2", "p3">>}
TournamentIds == {"t1", "t2"}
SurfaceSet == {"Hard", "Clay"}
SeriesSet == {"GS", "M1000"}
RoundSet == {"1R", "2R"}
RankDiffSet == {Undefined, Some(-1), Some(0)}

VARIABLES
    tooltip,        \* tooltip.ts:14  0 = null, else index of the selected div
    overlays,       \* the d3-tooltip divs appended to the document so far
    matches,        \* prop matches: Match[]
    tournaments,    \* prop tournaments: Tournament[]
    players,        \* prop players
    playerIds,      \* store: pinned player ids
    profSvg,        \* the <svg> of PlayerSurfaceProfile
    playerStats,    \* playerStats computed by the last profile effect run
    bMatches,       \* CompetitivenessBeeswarm prop matches
    bTournaments,   \* CompetitivenessBeeswarm prop tournaments
    derived,        \* prop derived: Derived[]
    surface,        \* prop surface: Surface | null
    series,         \* prop series: Series | null
    rounds,         \* store: the round whitelist, as a set
    beeSvg,         \* the <svg> of CompetitivenessBeeswarm
    roundGroups,    \* roundGroups computed by the last beeswarm effect run
    yDomain,        \* what the last beeswarm effect run gave createLinearScale
    lyPoints,       \* beeswarmLayout argument points
    lyPositionFn,   \* beeswarmLayout argument positionFn
    lyRadius,       \* beeswarmLayout argument pointRadius
    lyResult        \* Undefined before the call, then Some(its result)

tooltipVars == <<tooltip, overlays>>
profileVars == <<matches, tournaments, players, playerIds, profSvg, playerStats>>
beeswarmVars == <<bMatches, bTournaments, derived, surface, series, rounds,
                  beeSvg, roundGroups, yDomain>>
layoutVars == <<lyPoints, lyPositionFn, lyRadius, lyResult>>
vars == <<tooltip, overlays, matches, tournaments, players, playerIds,
          profSvg, playerStats, bMatches, bTournaments, derived, surface,
          series, rounds, beeSvg, roundGroups, yDomain,
          lyPoints, lyPositionFn, lyRadius, lyResult>>

\* ------------------------------------------------------------------------
\* utils/d3/tooltip.ts
\* ------------------------------------------------------------------------
Containers == {"#chart", "#missing", "body"}
DomSelectors == {"#chart"}
TitleSet == {Undefined, Some("T")}
ContentSet == {<<"a">>, <<"a", "b">>}
CoordSet == {Undefined, Some(0), Some(7)}
PageCoords == {1, 2}
TooltipDataSet == [title : TitleSet, content : ContentSet, x : CoordSet, y : CoordSet]
MouseEvents == [pageX : PageCoords, pageY : {1}]

\* document.querySelector(container) || document.body, or the element itself
containerElement(container) ==
    IF container = "body" THEN "body"
    ELSE IF container \in DomSelectors THEN container ELSE "body"

\* the div appended by initTooltip, opacity 0
newOverlay(container) ==
    [parent |-> containerElement(container), opacity |-> 0,
     left |-> Undefined, top |-> Undefined, html |-> <<>>]

\* content.join('<br/>'); a plain string is a one-line content
RECURSIVE joinBr(_)
joinBr(lines) ==
    IF Len(lines) <= 1 THEN lines
    ELSE <<Head(lines), "<br/>">> \o joinBr(Tail(lines))

tooltipHtml(data) ==
    IF data.title # Undefined
    THEN <<"<strong>", data.title[1], "</strong>", "<br/>">> \o joinBr(data.content)
    ELSE joinBr(data.content)

\* a || b on an optional number: undefined and 0 are falsy
orElse(opt, fallback) ==
    IF opt = Undefined THEN fallback
    ELSE IF opt[1] = 0 THEN fallback ELSE opt[1]

initTooltip(container) ==
    /\ Len(overlays) < MaxOverlays
    /\ overlays' = Append(overlays, newOverlay(container))
    /\ tooltip' = Len(overlays) + 1
    /\ UNCHANGED <<profileVars, beeswarmVars, layoutVars>>

showTooltip(data, event) ==
    LET lazy == tooltip = 0
        ovs == IF lazy THEN Append(overlays, newOverlay("body")) ELSE overlays
        t == IF lazy THEN Len(overlays) + 1 ELSE tooltip
    IN  /\ lazy => Len(overlays) < MaxOverlays
        /\ tooltip' = t
        /\ overlays' = [ovs EXCEPT ![t] =
               [@ EXCEPT !.html = tooltipHtml(data),
                         !.opacity = 1,
                         !.left = Some(orElse(data.x, event.pageX) + 10),
                         !.top = Some(orElse(data.y, event.pageY) - 10)]]
        /\ UNCHANGED <<profileVars, beeswarmVars, layoutVars>>

hideTooltip ==
    /\ IF tooltip # 0
       THEN overlays' = [overlays EXCEPT ![tooltip].opacity = 0]
       ELSE UNCHANGED overlays
    /\ UNCHANGED <<tooltip, profileVars, beeswarmVars, layoutVars>>

moveTooltip(event) ==
    /\ IF tooltip # 0
       THEN overlays' = [overlays EXCEPT ![tooltip].left = Some(event.pageX + 10),
                                         ![tooltip].top = Some(event.pageY - 10)]
       ELSE UNCHANGED overlays
    /\ UNCHANGED <<tooltip, profileVars, beeswarmVars, layoutVars>>

\* ------------------------------------------------------------------------
\* components/insights/PlayerSurfaceProfile.tsx
\* ------------------------------------------------------------------------
surfaces == <<"Hard", "Clay", "Grass", "Carpet">>

\* new Map(items.map(x => [key(x), x])): a later entry replaces an earlier
\* one with the same key.  keys[i] is the key of items[i].
MapOf(keys, items) ==
    [k \in {keys[i] : i \in DOMAIN keys} |->
        items[CHOOSE i \in DOMAIN keys :
                 /\ keys[i] = k
                 /\ \A j \in DOMAIN keys : j > i => keys[j] # k]]

tournamentsMapOf(ts) == MapOf([i \in DOMAIN ts |-> ts[i].id], ts)

\* variant: the filter forgets the matches the player lost
playerMatchesOfWinnerOnly(ms, playerId) ==
    SelectSeq(ms, LAMBDA m : m.winnerId = playerId)

\* matches.filter(m => m.winnerId === playerId || m.loserId === playerId)
playerMatchesOf(ms, playerId) ==
    SelectSeq(ms, LAMBDA m : m.winnerId = playerId \/ m.loserId = playerId)

\* index of the entry of the insertion-ordered Map for a surface, 0 if none
surfaceIndex(stats, key) ==
    IF \E i \in DOMAIN stats : stats[i].surface = key
    THEN CHOOSE i \in DOMAIN stats : stats[i].surface = key
    ELSE 0

\* variant: a new surface is put in front of the entries instead of after them
accumulateMatchPrepend(stats, match, tmap, playerId) ==
    IF match.tournamentId \notin DOMAIN tmap THEN stats
    ELSE LET tournament == tmap[match.tournamentId]
             withKey == IF surfaceIndex(stats, tournament.surface) = 0
                        THEN <<[surface |-> tournament.surface,
                                wins |-> 0, total |-> 0]>> \o stats
                        ELSE stats
             i == surfaceIndex(withKey, tournament.surface)
             won == IF match.winnerId = playerId THEN 1 ELSE 0
         IN  [withKey EXCEPT ![i].total = @ + 1, ![i].wins = @ + won]

\* the body of playerMatches.forEach for one match
accumulateMatch(stats, match, tmap, playerId) ==
    IF match.tournamentId \notin DOMAIN tmap THEN stats
    ELSE LET tournament == tmap[match.tournamentId]
             withKey == IF surfaceIndex(stats, tournament.surface) = 0
                        THEN Append(stats, [surface |-> tournament.surface,
                                            wins |-> 0, total |-> 0])
                        ELSE stats
             i == surfaceIndex(withKey, tournament.surface)
             won == IF match.winnerId = playerId THEN 1 ELSE 0
         IN  [withKey EXCEPT ![i].total = @ + 1, ![i].wins = @ + won]

RECURSIVE accumulateSurfaces(_, _, _, _)
accumulateSurfaces(stats, pm, tmap, playerId) ==
    IF pm = <<>> THEN stats
    ELSE accumulateSurfaces(accumulateMatch(stats, Head(pm), tmap, playerId),
                            Tail(pm), tmap, playerId)

\* variant: the quotient taken the wrong way round
winRateOfSwapped(wins, total) ==
    IF total > 0 THEN [num |-> total, den |-> wins] ELSE [num |-> 0, den |-> 1]

\* stats.total > 0 ? stats.wins / stats.total : 0, as an exact fraction
winRateOf(wins, total) ==
    IF total > 0 THEN [num |-> wins, den |-> total] ELSE [num |-> 0, den |-> 1]

\* Array.from(surfaceStats.entries()).map(...)
surfaceStatsOf(ms, ts, playerId) ==
    LET acc == accumulateSurfaces(<<>>, playerMatchesOf(ms, playerId),
                                  tournamentsMapOf(ts), playerId)
    IN  [i \in DOMAIN acc |->
            [surface |-> acc[i].surface,
             winRate |-> winRateOf(acc[i].wins, acc[i].total),
             wins |-> acc[i].wins,
             total |-> acc[i].total]]

\* playerIds.map(...).filter(Boolean): players missing from the list drop out
RECURSIVE computePlayerStats(_, _, _, _)
computePlayerStats(ms, ts, ps, pids) ==
    IF pids = <<>> THEN <<>>
    ELSE LET rest == computePlayerStats(ms, ts, ps, Tail(pids))
         IN  IF \E i \in DOMAIN ps : ps[i].id = Head(pids)
             THEN <<[playerId |-> Head(pids),
                     surfaceStats |-> surfaceStatsOf(ms, ts, Head(pids))]>> \o rest
             ELSE rest

\* the rect (and its label) appended for one player and one surface
barOf(playerData, srf) ==
    LET found == \E i \in DOMAIN playerData.surfaceStats :
                     playerData.surfaceStats[i].surface = srf
        stat == playerData.surfaceStats[
                    CHOOSE i \in DOMAIN playerData.surfaceStats :
                        playerData.surfaceStats[i].surface = srf]
    IN  [playerId |-> playerData.playerId,
         surface |-> srf,
         winRate |-> IF found THEN stat.winRate ELSE winRateOf(0, 0),
         label |-> found /\ stat.total > 0]

\* the content of the svg after svg.selectAll('*').remove() and the drawing
drawProfile(stats) ==
    [mounted |-> TRUE,
     bars |-> {barOf(stats[p], surfaces[s]) : p \in DOMAIN stats, s \in DOMAIN surfaces},
     legend |-> [p \in DOMAIN stats |-> stats[p].playerId]]

emptySvg == [mounted |-> TRUE, bars |-> {}, legend |-> <<>>]
noSvg == [mounted |-> FALSE, bars |-> {}, legend |-> <<>>]

\* the JSX returned by the component: no <svg> while nothing is pinned, and
\* the same <svg> element is kept between two renders that both have it
renderProfile(svg, pids) ==
    IF pids = <<>> THEN noSvg
    ELSE IF svg.mounted THEN svg ELSE emptySvg

\* the useEffect body, run on the svg left by the render
profileEffectSvg(svg, ms, ts, ps, pids) ==
    IF ~svg.mounted \/ pids = <<>> THEN svg
    ELSE IF computePlayerStats(ms, ts, ps, pids) = <<>> THEN svg
    ELSE drawProfile(computePlayerStats(ms, ts, ps, pids))

profileEffectStats(svg, ms, ts, ps, pids) ==
    IF ~svg.mounted \/ pids = <<>> THEN <<>>
    ELSE computePlayerStats(ms, ts, ps, pids)

\* a prop or store change of PlayerSurfaceProfile: render, then effect
ProfileUpdate(ms, ts, ps, pids) ==
    LET svg == renderProfile(profSvg, pids)
    IN  /\ matches' = ms
        /\ tournaments' = ts
        /\ players' = ps
        /\ playerIds' = pids
        /\ profSvg' = profileEffectSvg(svg, ms, ts, ps, pids)
        /\ playerStats' = profileEffectStats(svg, ms, ts, ps, pids)
        /\ UNCHANGED <<tooltipVars, beeswarmVars, layoutVars>>

\* the match lists of length n; the id of a match is its position
ProfileMatchLists(n) ==
    {[i \in 1..n |-> [id |-> i, tournamentId |-> f[i][1], winnerId |-> f[i][2][1],
                      loserId |-> f[i][2][2], round |-> "1R"]] :
        f \in [1..n -> TournamentIds \X PlayerPairs]}

\* the tournament tables: at most one record per id
ProfileTournamentLists ==
    {<<>>} \cup
    {<<[id |-> t, surface |-> s, series |-> "GS"]>> : t \in TournamentIds, s \in SurfaceSet} \cup
    {<<[id |-> "t1", surface |-> s1, series |-> "GS"],
       [id |-> "t2", surface |-> s2, series |-> "GS"]>> : s1 \in SurfaceSet, s2 \in SurfaceSet}

PlayerLists == {<<>>, <<[id |-> "p1"]>>, <<[id |-> "p2"]>>, <<[id |-> "p1"], [id |-> "p2"]>>}

\* the component is mounted with its data and nothing pinned: no <svg>, and
\* the first effect run returns at once
ProfileMounted ==
    /\ matches \in UNION {ProfileMatchLists(n) : n \in 0..MaxMatches}
    /\ tournaments \in ProfileTournamentLists
    /\ players \in PlayerLists
    /\ playerIds = <<>>
    /\ profSvg = noSvg
    /\ playerStats = <<>>

PinPlayer(p) ==
    /\ \A i \in DOMAIN playerIds : playerIds[i] # p
    /\ ProfileUpdate(matches, tournaments, players, Append(playerIds, p))

UnpinPlayer(p) ==
    /\ \E i \in DOMAIN playerIds : playerIds[i] = p
    /\ ProfileUpdate(matches, tournaments, players,
                     SelectSeq(playerIds, LAMBDA x : x # p))

\* ------------------------------------------------------------------------
\* utils/d3/layout: beeswarmLayout(points, positionFn, pointRadius)
\* The file is not part of the available sources; the operators below follow
\* the algorithm of the design document, section 4.3.
\* ------------------------------------------------------------------------
Abs(n) == IF n < 0 THEN -n ELSE n

\* step 1: y = positionFn(value) for every point
withPositions(points, positionFn) ==
    [i \in DOMAIN points |->
        [value |-> points[i].value, payload |-> points[i].payload,
         y |-> positionFn[points[i].value]]]

\* step 2: stable sort by y ascending
RECURSIVE insertByY(_, _)
insertByY(sorted, p) ==
    IF sorted = <<>> THEN <<p>>
    ELSE IF Head(sorted).y <= p.y THEN <<Head(sorted)>> \o insertByY(Tail(sorted), p)
         ELSE <<p>> \o sorted

RECURSIVE sortByY(_, _)
sortByY(sorted, rest) ==
    IF rest = <<>> THEN sorted
    ELSE sortByY(insertByY(sorted, Head(rest)), Tail(rest))

\* the k-th candidate offset: 0, +d, -d, +2d, -2d, ... with d = 2 * pointRadius
slotOffset(k, pointRadius) ==
    IF k % 2 = 1 THEN ((k + 1) \div 2) * (2 * pointRadius)
    ELSE -((k \div 2) * (2 * pointRadius))

\* variant: only the point placed last is tested for a collision
activeWindowLastOnly(placed, y, pointRadius) ==
    IF placed = <<>> THEN <<>>
    ELSE SelectSeq(<<placed[Len(placed)]>>, LAMBDA q : Abs(y - q.y) < 2 * pointRadius)

\* the placed points still within collision range of a point at y
activeWindow(placed, y, pointRadius) ==
    SelectSeq(placed, LAMBDA q : Abs(y - q.y) < 2 * pointRadius)

\* does offset x keep a point 2 * pointRadius away from every active point
slotFree(x, active, pointRadius) ==
    \A j \in DOMAIN active : Abs(x - active[j].x_offset) >= 2 * pointRadius

\* step 3 for one point: the first free candidate offset
resolveOffset(placed, y, pointRadius) ==
    LET active == activeWindow(placed, y, pointRadius)
        k == CHOOSE k \in 0..(2 * Len(active)) :
                 /\ slotFree(slotOffset(k, pointRadius), active, pointRadius)
                 /\ \A h \in 0..(k - 1) :
                        ~slotFree(slotOffset(h, pointRadius), active, pointRadius)
    IN  slotOffset(k, pointRadius)

\* steps 3 to 5: the sweep over the sorted points
RECURSIVE sweep(_, _, _)
sweep(placed, sorted, pointRadius) ==
    IF sorted = <<>> THEN placed
    ELSE LET p == Head(sorted)
             x == resolveOffset(placed, p.y, pointRadius)
         IN  sweep(Append(placed, [value |-> p.value, payload |-> p.payload,
                                   y |-> p.y, x_offset |-> x]),
                   Tail(sorted), pointRadius)

beeswarmLayout(points, positionFn, pointRadius) ==
    sweep(<<>>, sortByY(<<>>, withPositions(points, positionFn)), pointRadius)

LayoutValues == 0..MaxValue
PositionFns ==
    {[v \in LayoutValues |-> v],
     [v \in LayoutValues |-> 3 * v],
     [v \in LayoutValues |-> 2 * (MaxValue - v)]}
RadiusSet == {1, 2}

\* the point sequences of a given length, payload i for the i-th point
PointSeqs(n) ==
    {[i \in 1..n |-> [value |-> f[i], payload |-> i]] : f \in [1..n -> LayoutValues]}

LayoutInputs ==
    /\ lyPoints \in UNION {PointSeqs(n) : n \in 0..MaxPoints}
    /\ lyPositionFn \in PositionFns
    /\ lyRadius \in RadiusSet
    /\ lyResult = Undefined

LayoutCall ==
    /\ lyResult = Undefined
    /\ lyResult' = Some(beeswarmLayout(lyPoints, lyPositionFn, lyRadius))
    /\ UNCHANGED <<lyPoints, lyPositionFn, lyRadius>>
    /\ UNCHANGED <<tooltipVars, profileVars, beeswarmVars>>

\* ------------------------------------------------------------------------
\* CompetitivenessBeeswarm (src/unnamed/part_000)
\* ------------------------------------------------------------------------
allRounds == <<"1R", "2R", "3R", "4R", "QF", "SF", "F">>
PointRadius == 4
chartHeight == 320

\* variant: a match whose tournament is missing passes the surface filter
surfaceMatchesLenient(m, tmap, sf) ==
    \/ m.tournamentId \notin DOMAIN tmap
    \/ tmap[m.tournamentId].surface = sf

\* tournamentsMap.get(m.tournamentId)?.surface === surface
surfaceMatches(m, tmap, sf) ==
    /\ m.tournamentId \in DOMAIN tmap
    /\ tmap[m.tournamentId].surface = sf

\* tournamentsMap.get(m.tournamentId)?.series === series
seriesMatches(m, tmap, se) ==
    /\ m.tournamentId \in DOMAIN tmap
    /\ tmap[m.tournamentId].series = se

\* variant: the series filter restarts from matches and loses the surface filter
filteredMatchesOfRestart(ms, ts, sf, se, rs) ==
    LET tmap == tournamentsMapOf(ts)
        f1 == IF sf # Null
              THEN SelectSeq(ms, LAMBDA m : surfaceMatches(m, tmap, sf)) ELSE ms
        f2 == IF se # Null
              THEN SelectSeq(ms, LAMBDA m : seriesMatches(m, tmap, se)) ELSE f1
    IN  IF rs # {} THEN SelectSeq(f2, LAMBDA m : m.round \in rs) ELSE f2

\* the three conditional filters of the effect
filteredMatchesOf(ms, ts, sf, se, rs) ==
    LET tmap == tournamentsMapOf(ts)
        f1 == IF sf # Null
              THEN SelectSeq(ms, LAMBDA m : surfaceMatches(m, tmap, sf)) ELSE ms
        f2 == IF se # Null
              THEN SelectSeq(f1, LAMBDA m : seriesMatches(m, tmap, se)) ELSE f1
    IN  IF rs # {} THEN SelectSeq(f2, LAMBDA m : m.round \in rs) ELSE f2

derivedMapOf(ds) == MapOf([i \in DOMAIN ds |-> ds[i].matchId], ds)

\* variant: the round's key is created before the derived metric is looked at
groupMatchKeyFirst(groups, match, dmap) ==
    LET withKey == IF match.round \notin DOMAIN groups
                   THEN groups @@ (match.round :> <<>>)
                   ELSE groups
    IN  IF match.id \in DOMAIN dmap /\ dmap[match.id].rankDiff # Undefined
        THEN [withKey EXCEPT ![match.round] =
                 Append(@, [match |-> match, derived |-> dmap[match.id]])]
        ELSE withKey

\* the body of filteredMatches.forEach for one match
groupMatch(groups, match, dmap) ==
    IF match.id \in DOMAIN dmap /\ dmap[match.id].rankDiff # Undefined
    THEN LET withKey == IF match.round \notin DOMAIN groups
                        THEN groups @@ (match.round :> <<>>)
                        ELSE groups
         IN  [withKey EXCEPT ![match.round] =
                 Append(@, [match |-> match, derived |-> dmap[match.id]])]
    ELSE groups

RECURSIVE groupAll(_, _, _)
groupAll(groups, fm, dmap) ==
    IF fm = <<>> THEN groups
    ELSE groupAll(groupMatch(groups, Head(fm), dmap), Tail(fm), dmap)

roundGroupsOf(ms, ds, ts, sf, se, rs) ==
    groupAll(<<>>, filteredMatchesOf(ms, ts, sf, se, rs), derivedMapOf(ds))

\* allRounds.filter(r => roundGroups.has(r))
roundsToShowOf(groups) ==
    SelectSeq(allRounds, LAMBDA r : r \in DOMAIN groups)

\* d.derived.rankDiff || 0
rankValue(d) == IF d.rankDiff = Undefined THEN 0 ELSE d.rankDiff[1]

\* Array.from(roundGroups.values()).flat().map(d => d.derived.rankDiff || 0),
\* as the set of its values and the number of its elements
domainValues(groups) ==
    UNION {{rankValue(groups[r][i].derived) : i \in DOMAIN groups[r]} : r \in DOMAIN groups}

RECURSIVE sumLen(_, _)
sumLen(groups, keys) ==
    IF keys = {} THEN 0
    ELSE LET r == CHOOSE r \in keys : TRUE
         IN  Len(groups[r]) + sumLen(groups, keys \ {r})

SetMin(S) == CHOOSE x \in S : \A y \in S : x <= y
SetMax(S) == CHOOSE x \in S : \A y \in S : x >= y

\* the arguments of createLinearScale: [Math.min(...), Math.max(...)];
\* n = 0 is Math.min() and Math.max() of no argument (Infinity, -Infinity)
yDomainOf(groups) ==
    LET vals == domainValues(groups)
    IN  [built |-> TRUE, n |-> sumLen(groups, DOMAIN groups),
         min |-> IF vals = {} THEN 0 ELSE SetMin(vals),
         max |-> IF vals = {} THEN 0 ELSE SetMax(vals)]

notBuilt == [built |-> FALSE, n |-> 0, min |-> 0, max |-> 0]

\* createLinearScale([min, max], [chartHeight, 0]) of utils/d3/scales, which
\* is not part of the available sources: linear interpolation, the midpoint
\* of the range when min = max.  Positions are exact fractions: yScale gives
\* the numerator over the common denominator scaleDen.
scaleDen(dom) == IF dom.max = dom.min THEN 2 ELSE dom.max - dom.min

yScale(dom, v) ==
    IF dom.max = dom.min THEN chartHeight
    ELSE chartHeight * (dom.max - v)

\* the circles appended for one round; lengths passed to the layout are in
\* units of 1/scaleDen px, cx is xPos of the round's band plus an offset
circlesOf(groups, round, dom) ==
    LET data == groups[round]
        beeswarmData ==
            beeswarmLayout(
                [i \in DOMAIN data |->
                    [value |-> rankValue(data[i].derived), payload |-> data[i]]],
                [v \in domainValues(groups) |-> yScale(dom, v)],
                PointRadius * scaleDen(dom))
    IN  {[round |-> round,
          cx |-> [band |-> round, offset |-> 0],
          cy |-> beeswarmData[i].y,
          r |-> PointRadius,
          matchId |-> beeswarmData[i].payload.match.id] : i \in DOMAIN beeswarmData}

\* the content of the svg after svg.selectAll('*').remove() and the drawing
drawBeeswarm(groups) ==
    LET roundsToShow == roundsToShowOf(groups)
        dom == yDomainOf(groups)
    IN  [circles |-> UNION {circlesOf(groups, roundsToShow[k], dom) :
                               k \in DOMAIN roundsToShow},
         axis |-> roundsToShow,
         den |-> scaleDen(dom)]

emptyBeeSvg == [circles |-> {}, axis |-> <<>>, den |-> 1]

\* the useEffect body from the roundsToShow guard on: the svg it leaves
beeswarmEffectSvg(svg, groups) ==
    IF roundsToShowOf(groups) = <<>> THEN svg ELSE drawBeeswarm(groups)

\* what the effect run hands to createLinearScale, if it gets that far
beeswarmEffectDomain(groups) ==
    IF roundsToShowOf(groups) = <<>> THEN notBuilt ELSE yDomainOf(groups)

\* a prop or store change of CompetitivenessBeeswarm: render, then effect
BeeswarmUpdate(sf, se, rs) ==
    LET groups == roundGroupsOf(bMatches, derived, bTournaments, sf, se, rs)
    IN  /\ surface' = sf
        /\ series' = se
        /\ rounds' = rs
        /\ roundGroups' = groups
        /\ beeSvg' = beeswarmEffectSvg(beeSvg, groups)
        /\ yDomain' = beeswarmEffectDomain(groups)
        /\ UNCHANGED <<bMatches, derived, bTournaments>>
        /\ UNCHANGED <<tooltipVars, profileVars, layoutVars>>

\* the match lists of length n; the id of a match is its position
BeeMatchLists(n) ==
    {[i \in 1..n |-> [id |-> i, tournamentId |-> f[i][1], winnerId |-> "p1",
                      loserId |-> "p2", round |-> f[i][2]]] :
        f \in [1..n -> TournamentIds \X RoundSet]}

\* the derived metrics of the first n matches
DerivedLists(n) ==
    {[i \in 1..n |-> [matchId |-> i, rankDiff |-> f[i]]] : f \in [1..n -> RankDiffSet]}

\* the tournament tables: t2 is an id no table resolves
BeeTournamentLists ==
    {<<>>} \cup {<<[id |-> "t1", surface |-> s, series |-> e]>> :
                    s \in SurfaceSet, e \in SeriesSet}

\* the component is mounted with its data and no filter; the first effect
\* run has drawn into the empty <svg>
BeeswarmMounted ==
    /\ bMatches \in UNION {BeeMatchLists(n) : n \in 0..MaxMatches}
    /\ derived \in UNION {DerivedLists(n) : n \in 0..MaxMatches}
    /\ bTournaments \in BeeTournamentLists
    /\ surface = Null
    /\ series = Null
    /\ rounds = {}
    /\ roundGroups = roundGroupsOf(bMatches, derived, bTournaments, Null, Null, {})
    /\ beeSvg = beeswarmEffectSvg(emptyBeeSvg, roundGroups)
    /\ yDomain = beeswarmEffectDomain(roundGroups)

SetSurface(sf) ==
    /\ sf # surface
    /\ BeeswarmUpdate(sf, series, rounds)

SetSeries(se) ==
    /\ se # series
    /\ BeeswarmUpdate(surface, se, rounds)

ToggleRound(r) ==
    BeeswarmUpdate(surface, series,
                   IF r \in rounds THEN rounds \ {r} ELSE rounds \cup {r})

\* ------------------------------------------------------------------------
\* Specifications
\* ------------------------------------------------------------------------
TooltipIdle == tooltip = 0 /\ overlays = <<>>

ProfileIdle ==
    /\ matches = <<>>
    /\ tournaments = <<>>
    /\ players = <<>>
    /\ playerIds = <<>>
    /\ profSvg = noSvg
    /\ playerStats = <<>>

BeeswarmIdle ==
    /\ bMatches = <<>>
    /\ bTournaments = <<>>
    /\ derived = <<>>
    /\ surface = Null
    /\ series = Null
    /\ rounds = {}
    /\ beeSvg = emptyBeeSvg
    /\ roundGroups = <<>>
    /\ yDomain = notBuilt

LayoutIdle ==
    /\ lyPoints = <<>>
    /\ lyPositionFn = [v \in LayoutValues |-> v]
    /\ lyRadius = 1
    /\ lyResult = Undefined

TooltipInit == TooltipIdle /\ ProfileIdle /\ BeeswarmIdle /\ LayoutIdle

TooltipNext ==
    \/ \E c \in Containers : initTooltip(c)
    \/ \E d \in TooltipDataSet, e \in MouseEvents : showTooltip(d, e)
    \/ hideTooltip
    \/ \E e \in MouseEvents : moveTooltip(e)

SpecTooltip == TooltipInit /\ [][TooltipNext]_vars

ProfileInit == TooltipIdle /\ ProfileMounted /\ BeeswarmIdle /\ LayoutIdle

ProfileNext ==
    \/ \E p \in PinnableIds : PinPlayer(p)
    \/ \E p \in PinnableIds : UnpinPlayer(p)

SpecProfile == ProfileInit /\ [][ProfileNext]_vars

BeeswarmInit == TooltipIdle /\ ProfileIdle /\ BeeswarmMounted /\ LayoutIdle

BeeswarmNext ==
    \/ \E sf \in {Null, "Hard"} : SetSurface(sf)
    \/ \E se \in {Null, "GS"} : SetSeries(se)
    \/ \E r \in RoundSet : ToggleRound(r)

SpecBeeswarm == BeeswarmInit /\ [][BeeswarmNext]_vars

LayoutInit == TooltipIdle /\ ProfileIdle /\ BeeswarmIdle /\ LayoutInputs

LayoutNext == LayoutCall

SpecLayout == LayoutInit /\ [][LayoutNext]_vars

\* ------------------------------------------------------------------------
\* Properties
\* ------------------------------------------------------------------------

\* ---- PlayerSurfaceProfile ----
RECURSIVE SumTotals(_)
SumTotals(stats) ==
    IF stats = <<>> THEN 0 ELSE Head(stats).total + SumTotals(Tail(stats))

Resolvable(ts, tid) == \E j \in DOMAIN ts : ts[j].id = tid
Involves(m, p) == m.winnerId = p \/ m.loserId = p

\* the matches of ms that count for player p
CountedMatches(ms, ts, p) ==
    {i \in DOMAIN ms : Involves(ms[i], p) /\ Resolvable(ts, ms[i].tournamentId)}

\* C1: for every player the totals of the surface entries add up to the
\* number of matches the player won or lost whose tournamentId is a key of
\* the tournament map.
C1_TotalsPartition ==
    \A k \in DOMAIN playerStats :
        SumTotals(playerStats[k].surfaceStats) =
            Cardinality(CountedMatches(matches, tournaments, playerStats[k].playerId))

\* a player with a counted match, a lost match among them, and a match of the
\* list that is not counted
C1_Witness ==
    \E k \in DOMAIN playerStats :
        LET p == playerStats[k].playerId
        IN  /\ SumTotals(playerStats[k].surfaceStats) >= 1
            /\ \E i \in CountedMatches(matches, tournaments, p) : matches[i].loserId = p
            /\ \E i \in DOMAIN matches : i \notin CountedMatches(matches, tournaments, p)

\* C5: every surface entry has 0 <= wins <= total, its winRate is wins/total
\* and lies in [0, 1], and the winRate is 0 whenever total is 0.
C5_WinRateBound ==
    \A k \in DOMAIN playerStats :
        \A i \in DOMAIN playerStats[k].surfaceStats :
            LET e == playerStats[k].surfaceStats[i]
            IN  /\ 0 <= e.wins /\ e.wins <= e.total
                /\ e.winRate.den > 0
                /\ 0 <= e.winRate.num /\ e.winRate.num <= e.winRate.den
                /\ e.total > 0 => e.winRate.num * e.total = e.wins * e.winRate.den
                /\ e.total = 0 => e.winRate.num = 0

\* an entry with a win and a loss on the same surface
C5_Witness ==
    \E k \in DOMAIN playerStats :
        \E i \in DOMAIN playerStats[k].surfaceStats :
            LET e == playerStats[k].surfaceStats[i]
            IN  0 < e.wins /\ e.wins < e.total

IndexPermutations(n) == {f \in [1..n -> 1..n] : \A a, b \in 1..n : f[a] = f[b] => a = b}

EntrySet(stats) ==
    {<<stats[i].surface, stats[i].wins, stats[i].total>> : i \in DOMAIN stats}

SurfaceOfMatch(ts, m) ==
    ts[CHOOSE j \in DOMAIN ts : ts[j].id = m.tournamentId].surface

\* the position in ms of the first counted match of player p on surface s
FirstSeen(ms, ts, p, s) ==
    LET on == {i \in CountedMatches(ms, ts, p) : SurfaceOfMatch(ts, ms[i]) = s}
    IN  CHOOSE i \in on : \A j \in on : i <= j

\* C6: for any permutation of the match list the set of (surface, wins, total)
\* entries of a player is the same; each surface appears at most once; the
\* entries are in the order in which the surfaces were first encountered.
C6_OrderIndependent ==
    \A k \in DOMAIN playerStats :
        LET p == playerStats[k].playerId
            out == playerStats[k].surfaceStats
        IN  /\ \A f \in IndexPermutations(Len(matches)) :
                   EntrySet(surfaceStatsOf([i \in DOMAIN matches |-> matches[f[i]]],
                                           tournaments, p)) = EntrySet(out)
            /\ \A i, j \in DOMAIN out : out[i].surface = out[j].surface => i = j
            /\ \A i, j \in DOMAIN out :
                   i < j => FirstSeen(matches, tournaments, p, out[i].surface)
                            < FirstSeen(matches, tournaments, p, out[j].surface)

\* two surfaces in the output, the first one not the first of the axis order
C6_Witness ==
    \E k \in DOMAIN playerStats :
        /\ Len(playerStats[k].surfaceStats) = 2
        /\ playerStats[k].surfaceStats[1].surface = "Clay"
        /\ playerStats[k].surfaceStats[2].surface = "Hard"

\* ---- CompetitivenessBeeswarm ----
GroupedMatches ==
    UNION {{roundGroups[r][i].match : i \in DOMAIN roundGroups[r]} :
              r \in DOMAIN roundGroups}

ResolvedIds == {bTournaments[j].id : j \in DOMAIN bTournaments}

TournamentOfMatch(m) ==
    bTournaments[CHOOSE j \in DOMAIN bTournaments : bTournaments[j].id = m.tournamentId]

HasRankDiff(m) ==
    \E j \in DOMAIN derived :
        derived[j].matchId = m.id /\ derived[j].rankDiff # Undefined

PassesFilters(m) ==
    /\ surface # Null =>
           m.tournamentId \in ResolvedIds /\ TournamentOfMatch(m).surface = surface
    /\ series # Null =>
           m.tournamentId \in ResolvedIds /\ TournamentOfMatch(m).series = series
    /\ rounds # {} => m.round \in rounds

Occurrences(m, r) ==
    IF r \in DOMAIN roundGroups
    THEN Cardinality({i \in DOMAIN roundGroups[r] : roundGroups[r][i].match = m})
    ELSE 0

Keys == DOMAIN roundGroups \cup {allRounds[i] : i \in DOMAIN allRounds}

\* C3: a match is in the round grouping if and only if it satisfies every
\* supplied filter and its derived metric exists with a defined rankDiff; it
\* is then there exactly once, under its own round, and under no other key.
C3_GroupedIffQualifies ==
    /\ GroupedMatches \subseteq {bMatches[i] : i \in DOMAIN bMatches}
    /\ \A i \in DOMAIN bMatches : \A r \in Keys :
           Occurrences(bMatches[i], r) =
               IF PassesFilters(bMatches[i]) /\ HasRankDiff(bMatches[i])
                  /\ r = bMatches[i].round
               THEN 1 ELSE 0

\* all three filters are supplied; one match is grouped and one that has a
\* rank difference fails a filter
C3_Witness ==
    /\ surface # Null /\ series # Null /\ rounds # {}
    /\ GroupedMatches # {}
    /\ \E i \in DOMAIN bMatches :
           ~PassesFilters(bMatches[i]) /\ HasRankDiff(bMatches[i])

\* C7: every key of the round grouping maps to a non-empty sequence, the
\* scale domain is never computed from zero data points, and with no key in
\* the grouping the effect returns before a scale is built.
C7_DomainNeverEmpty ==
    /\ \A r \in DOMAIN roundGroups : roundGroups[r] # <<>>
    /\ yDomain.built => yDomain.n > 0
    /\ DOMAIN roundGroups = {} => ~yDomain.built

\* a filter has left no group although a match has a rank difference
C7_Witness ==
    /\ DOMAIN roundGroups = {}
    /\ ~yDomain.built
    /\ surface # Null
    /\ \E i \in DOMAIN bMatches : HasRankDiff(bMatches[i])

\* C9: two circles of one round whose cy differ by less than 2 x radius are
\* drawn with cx at least 2 x radius apart.
C9_CirclesDoNotOverlap ==
    \A a, b \in beeSvg.circles :
        (a # b /\ a.round = b.round
         /\ Abs(a.cy - b.cy) < 2 * PointRadius * beeSvg.den)
        => (a.cx.band = b.cx.band
            /\ Abs(a.cx.offset - b.cx.offset) >= 2 * PointRadius)

\* what the effect would draw into an empty svg for the present inputs
FreshDrawing ==
    beeswarmEffectSvg(emptyBeeSvg,
        roundGroupsOf(bMatches, derived, bTournaments, surface, series, rounds))

\* C10: once the effect has run for the latest inputs, the svg holds only
\* elements computed from those inputs; with no qualifying round group no
\* circle of an earlier snapshot remains.
C10_SvgShowsLatestInputs == beeSvg.circles \subseteq FreshDrawing.circles

\* ---- beeswarmLayout ----
\* C4: two distinct output points whose positions differ by less than 2r have
\* x_offsets that differ by at least 2r.
C4_NoOverlap ==
    lyResult # Undefined =>
        LET out == lyResult[1]
        IN  \A i, j \in DOMAIN out :
                (i # j /\ Abs(out[i].y - out[j].y) < 2 * lyRadius)
                => Abs(out[i].x_offset - out[j].x_offset) >= 2 * lyRadius

\* three points within range of each other, at different positions, placed
\* at 0, +2r and -2r
C4_Witness ==
    /\ lyResult # Undefined
    /\ \E i, j, k \in DOMAIN lyResult[1] :
           LET out == lyResult[1]
           IN  /\ out[i].y # out[j].y
               /\ Abs(out[i].y - out[j].y) < 2 * lyRadius
               /\ Abs(out[i].y - out[k].y) < 2 * lyRadius
               /\ Abs(out[j].y - out[k].y) < 2 * lyRadius
               /\ out[i].x_offset = 0
               /\ out[j].x_offset = 2 * lyRadius
               /\ out[k].x_offset = -(2 * lyRadius)

\* ---- tooltip ----
\* C8: after any sequence of initTooltip, showTooltip, hideTooltip and
\* moveTooltip calls at most one tooltip overlay element has been created.
C8_SingleOverlay == Len(overlays) <= 1
====
